---- MODULE Spec2Model ----
(***************************************************************************)
(* useMediaControls (packages/core/useMediaControls/index.ts): a reactive  *)
(* view over a media element.  The model covers the two bidirectional      *)
(* bindings (currentTime, playing), the source and track reconciliation    *)
(* effects and the track selection operations.                             *)
(*                                                                         *)
(* The element reference `target` is 0 for null/undefined and 1..NumEls    *)
(* for a media element.  Numbers stand for float seconds, small strings    *)
(* for urls.                                                               *)
(***************************************************************************)
EXTENDS Integers, Sequences, FiniteSets, TLC

\* ---------------------------------------------------------------- bounds
NumEls == 2        \* media elements the ref may point at
MaxTime == 2       \* playback positions are 0..MaxTime
MaxWrites == 2     \* caller writes to the bidirectional refs in one run
MaxPending == 2    \* writes whose propagation has not completed yet
MaxEvents == 2     \* native events fired but not yet delivered
MaxSources == 2    \* entries of a src list
MaxLoads == 2      \* source reconciliations in one run
MaxTracks == 2     \* entries of the tracks option
MaxToggles == 2    \* calls of togglePictureInPicture in one run
MaxErrors == 2     \* error events of <source> children in one run

Els == 1..NumEls
Times == 0..MaxTime

VARIABLES
  target,        \* unref(target): 0 = no element, else the bound element
  currentTime,   \* ref currentTime
  ctQueue,       \* writes to currentTime whose propagation is pending
  elTime,        \* el.currentTime of every element
  tuPending,     \* a timeupdate event fired on the bound element, undelivered
  nTimeWrites,   \* caller writes currentTime.value = v so far
  nSeeks,        \* assignments el.currentTime = time so far
  nSeekSkips,    \* runs of the currentTime callback that found no element
  playing,       \* ref playing
  plQueue,       \* writes to playing whose propagation is pending
  elPaused,      \* el.paused of every element
  events,        \* play / pause events fired on the bound element, undelivered
  nPlayWrites,   \* caller writes playing.value = b so far
  nPlay,         \* calls el.play() so far
  nPause,        \* calls el.pause() so far
  nPlaySkips,    \* runs of the playing callback that found no element
  hasDocument,   \* options.document / defaultDocument is available
  src,           \* unref(options.src)
  elSources,     \* the <source> children of every element, in document order
  nLoads,        \* calls el.load() so far
  tracks,        \* unref(options.tracks)
  elTracks,      \* the <track> children of every element, in document order
  modes,         \* mode of each of the bound element's el.textTracks
  selectedTrack, \* ref selectedTrack
  lastCall,      \* the call of enableTrack / disableTrack made last, if any
  torn,          \* the controller has been torn down (owner unmounted)
  watching,      \* watch([target], ...) has not called stop() yet
  trackListEl,   \* the element whose textTracks carry listeners[0..2], or 0
  tracksRef,     \* ref tracks
  nSourceErrors, \* runs of sourceErrorEvent.trigger so far
  volume,        \* ref volume
  elVolume,      \* el.volume of every element
  opts,          \* unref(options.loop), ... : the scalar options
  elAttrs,       \* el.loop, ... of every element
  seeking,       \* ref seeking
  waiting,       \* ref waiting
  stalled,       \* ref stalled
  ended,         \* ref ended
  isPictureInPicture, \* ref isPictureInPicture
  pipInDocument, \* 'pictureInPictureEnabled' in document
  promises       \* the promises togglePictureInPicture() has returned

timeVars == <<currentTime, ctQueue, elTime, tuPending, nTimeWrites, nSeeks, nSeekSkips>>
playVars == <<playing, plQueue, elPaused, events, nPlayWrites, nPlay, nPause, nPlaySkips>>
srcVars == <<src, elSources, nLoads>>
trackVars == <<tracks, elTracks, modes, selectedTrack, lastCall>>
listenVars == <<torn, watching, trackListEl, tracksRef, nSourceErrors>>
optVars == <<volume, elVolume, opts, elAttrs>>
flagVars == <<seeking, waiting, stalled, ended>>
pipVars == <<isPictureInPicture, pipInDocument, promises>>
auxVars == <<listenVars, optVars, flagVars, pipVars>>
vars == <<target, hasDocument, timeVars, playVars, srcVars, trackVars, auxVars>>

\* ------------------------------------------------- suppressible watch
\* A write to a watched ref: a value equal to the current one is no change
\* and notifies nobody; a change is queued for propagation.  A write made
\* inside ignoreUpdates is queued as ignored: its propagation invokes no
\* callback, so it carries no value.
Ignored == [ign |-> TRUE]
Notify(v) == [ign |-> FALSE, val |-> v]

\* the updater of a listener, run inside ignoreUpdates(...)
IgnoreUpdates(queue, old, v) == IF v = old THEN queue ELSE Append(queue, Ignored)

\* a write made outside ignoreUpdates
Trigger(queue, old, v) == IF v = old THEN queue ELSE Append(queue, Notify(v))

\* number of pending writes whose propagation will invoke the callback
Live(queue) == Cardinality({i \in 1..Len(queue) : ~queue[i].ign})

\* the bound on the writes in flight, over both refs
HasRoom == Len(ctQueue) + Len(plQueue) < MaxPending

\* ----------------------------------------------------------- listeners
\* mutant: the listener writes back the ref's own value
TimeUpdateValueStale == currentTime

\* the value the timeupdate listener reads: (unref(target))!.currentTime
TimeUpdateValue == elTime[target]

\* mutant: the listener writes outside ignoreUpdates
TimeUpdateListenerBare(queue, old, v) == Trigger(queue, old, v)

\* the timeupdate listener's write of v to currentTime
TimeUpdateListener(queue, old, v) == IgnoreUpdates(queue, old, v)

\* mutant: the listener writes outside ignoreUpdates
PlayPauseListenerBare(queue, old, v) == Trigger(queue, old, v)

\* the pause / play listeners' write of v to playing
PlayPauseListener(queue, old, v) == IgnoreUpdates(queue, old, v)

\* ------------------------------------------------ source reconciliation
\* The src option: undefined, a string, a UseMediaSource or a list of them.
\* A UseMediaSource whose type is left out has type "none".
Urls == {"a.mp4", "a.ogv"}
Descs == {[src |-> "a.mp4", type |-> "video/mp4"],
          [src |-> "a.ogv", type |-> "none"]}
SeqsUpTo(S, n) == UNION {[1..k -> S] : k \in 0..n}
SrcValues ==
  {[kind |-> "unset"]}
    \cup {[kind |-> "string", url |-> u] : u \in Urls \cup {""}}
    \cup {[kind |-> "desc", d |-> d] : d \in Descs}
    \cup {[kind |-> "list", l |-> l] : l \in SeqsUpTo(Descs, MaxSources)}

\* defaultOptions.src
DefaultSrc == [kind |-> "string", url |-> ""]

\* mutant: src === undefined
FalsyUndefinedOnly(v) == v.kind = "unset"

\* !src
Falsy(v) == v.kind = "unset" \/ (v.kind = "string" /\ v.url = "")

\* "Merge sources into an array"
Sources(v) ==
  CASE v.kind = "string" -> <<[src |-> v.url, type |-> "none"]>>
    [] v.kind = "list" -> v.l
    [] v.kind = "desc" -> <<v.d>>
    [] OTHER -> <<>>

\* type || ''
TypeAttr(type) == IF type = "none" THEN "" ELSE type

\* a <source> child: its attributes, and whether sourceErrorEvent.trigger
\* listens to its error event
SourceChild(d) == [src |-> d.src, type |-> TypeAttr(d.type), err |-> TRUE]

\* a <source> child the page itself put into the element
ForeignSource == [src |-> "x.webm", type |-> "", err |-> FALSE]

\* mutant: the old children are left in place
ClearSourcesNot(kids) == kids

\* "Clear the sources": every <source> child is removed
ClearSources(kids) == <<>>

\* "Add new sources": one child per entry, appended in order
AddSources(kids, v) ==
  kids \o [i \in 1..Len(Sources(v)) |-> SourceChild(Sources(v)[i])]

\* the source watchEffect, run for element ref e and src option v
SourceEffect(e, v) ==
  IF ~hasDocument \/ e = 0 \/ Falsy(v)
    THEN UNCHANGED <<elSources, nLoads>>
    ELSE /\ elSources' = [elSources EXCEPT ![e] = AddSources(ClearSources(@), v)]
         /\ nLoads' = nLoads + 1

\* ------------------------------------------------- track reconciliation
\* UseMediaTextTrackSource: kind, label, src and srcLang are one label
\* here; the default flag is "true" or, when false or left out, "none"
TrackDescs == {[label |-> "EN", default |-> "none"],
               [label |-> "FR", default |-> "true"]}
TrackLists == SeqsUpTo(TrackDescs, MaxTracks)

\* TextTrackMode
Modes == {"disabled", "hidden", "showing"}

\* a <track> child: track.default = isDefault || false
TrackChild(d) == [label |-> d.label, default |-> (d.default = "true")]

\* a <track> child the page itself put into the element
ForeignTrack == [label |-> "XX", default |-> FALSE]

\* el.querySelectorAll('track').forEach(e => e.remove())
ClearTracks(kids) == <<>>

\* mutant: the first child whose default flag is set wins
RECURSIVE SelectedFromFirst(_, _, _)
SelectedFromFirst(l, i, sel) ==
  IF i > Len(l) THEN sel
  ELSE IF TrackChild(l[i]).default THEN i - 1
  ELSE SelectedFromFirst(l, i + 1, sel)

\* selectedTrack after the forEach has visited entries i .. Len(l): every
\* child whose default flag is set writes its index
RECURSIVE SelectedFrom(_, _, _)
SelectedFrom(l, i, sel) ==
  IF i > Len(l) THEN sel
  ELSE SelectedFrom(l, i + 1, IF TrackChild(l[i]).default THEN i - 1 ELSE sel)

\* mutant: the loop starts at i = 1
DisableAllButFirst(ms) == [i \in 1..Len(ms) |-> IF i = 1 THEN ms[i] ELSE "disabled"]

\* every text track disabled: for (i = 0; i < el.textTracks.length; ++i)
DisableAll(ms) == [i \in 1..Len(ms) |-> "disabled"]

\* "Load Tracks": one <track> child per descriptor, appended in order
AddTracks(kids, l) == kids \o [i \in 1..Len(l) |-> TrackChild(l[i])]

\* the tracks watchEffect, run for element ref e and tracks option l, when
\* the text tracks of e are in the modes ms; the text tracks of new
\* children start disabled
TrackEffect(e, l, ms) ==
  IF ~hasDocument \/ l = <<>> \/ e = 0
    THEN /\ modes' = ms
         /\ UNCHANGED <<elTracks, selectedTrack>>
    ELSE /\ elTracks' = [elTracks EXCEPT ![e] = AddTracks(ClearTracks(@), l)]
         /\ modes' = [i \in 1..Len(l) |-> "disabled"]
         /\ selectedTrack' = SelectedFrom(l, 1, selectedTrack)

\* the modes the text tracks of element e may be in when the ref comes to
\* hold it: the page and the user set them while it was not bound
ModesOf(e) == IF e = 0 THEN {<<>>} ELSE [1..Len(elTracks[e]) -> Modes]

\* if (track): a number 0 is falsy, a descriptor never is
TrackGiven(track) == track.kind = "obj" \/ (track.kind = "num" /\ track.id # 0)

\* the arguments of enableTrack and disableTrack: an id or a descriptor
\* carrying one, in range or not
TrackArgs == {[kind |-> k, id |-> i] : k \in {"num", "obj"}, i \in 0..MaxTracks}
NoTrack == [kind |-> "none"]
NoCall == [op |-> "none"]

\* ------------------------------------------------ option reconciliation
\* the scalar options the options watchEffect applies, volume apart
OptionNames ==
  {"loop", "controls", "muted", "preload", "autoplay", "poster",
   "playsinline", "autoPictureInPicture"}

\* the values of an option; a boolean is written "true" / "false"
OptionValues(n) ==
  IF n = "preload" THEN {"auto", "metadata", "none"}
  ELSE IF n = "poster" THEN {"a.png", "b.png"}
  ELSE {"true", "false"}

\* an option left out, or a ref holding undefined
Unset == "undefined"
NoOptions == [n \in OptionNames |-> Unset]

\* the attributes of a media element the page has not touched, and of one
\* whose attributes the page has set
DefaultAttrs ==
  [n \in OptionNames |->
     IF n = "preload" THEN "metadata" ELSE IF n = "poster" THEN "" ELSE "false"]
PageAttrs ==
  [n \in OptionNames |->
     IF n = "preload" THEN "none" ELSE IF n = "poster" THEN "b.png" ELSE "true"]

\* mutant: the effect returns at the first option that is unset
ApplyOptionsUntilUnset(attrs, o) ==
  [n \in OptionNames |->
     IF o[n] # Unset /\ o["loop"] # Unset THEN o[n] ELSE attrs[n]]

\* if (x !== undefined) el.x = x, option by option
ApplyOptions(attrs, o) ==
  [n \in OptionNames |-> IF o[n] # Unset THEN o[n] ELSE attrs[n]]

\* volume levels; ref(1)
Volumes == {0, 1}
InitVolume == 1

\* the options watchEffect, run for element ref e
OptionsEffect(e, o, vol) ==
  IF e = 0
    THEN UNCHANGED <<elAttrs, elVolume>>
    ELSE /\ elAttrs' = [elAttrs EXCEPT ![e] = ApplyOptions(@, o)]
         /\ elVolume' = [elVolume EXCEPT ![e] = vol]

\* ------------------------------------------------- track-list listeners
\* tracksToArray(el.textTracks): id, label and mode of every text track
TracksToArray(kids, ms) ==
  [i \in 1..Len(kids) |-> [id |-> i - 1, label |-> kids[i].label, mode |-> ms[i]]]

\* the modes el.textTracks of element e may be in: those of the bound
\* element are known, those of any other element are the page's
TextTrackModes(e) == IF e = target THEN {modes} ELSE ModesOf(e)

\* the callback of watch([target], ...), run when the ref has come to hold
\* e: at the first element it stops the watch and attaches listeners[0..2]
TrackListWatch(e) ==
  IF ~watching \/ e = 0
    THEN UNCHANGED <<watching, trackListEl>>
    ELSE /\ watching' = FALSE
         /\ trackListEl' = e

\* e.removeEventListener('error', sourceErrorEvent.trigger) on every child
RemoveErrorListeners(kids) ==
  [i \in 1..Len(kids) |-> [src |-> kids[i].src, type |-> kids[i].type, err |-> FALSE]]

\* ------------------------------------------------------ derived flags
\* the native events whose listeners write the four flags
FlagEvents == {"seeking", "seeked", "waiting", "playing", "stalled", "ended"}

\* 'seeking' -> seeking.value = true, 'seeked' -> seeking.value = false
SeekingAfter(ev, old) ==
  IF ev = "seeking" THEN TRUE ELSE IF ev = "seeked" THEN FALSE ELSE old

\* 'waiting' -> waiting.value = true, 'playing' -> waiting.value = false
WaitingAfter(ev, old) ==
  IF ev = "waiting" THEN TRUE ELSE IF ev = "playing" THEN FALSE ELSE old

\* 'stalled' -> stalled.value = true
StalledAfter(ev, old) == IF ev = "stalled" THEN TRUE ELSE old

\* mutant: 'playing' -> ended.value = false
EndedAfterReset(ev, old) ==
  IF ev = "ended" THEN TRUE ELSE IF ev = "playing" THEN FALSE ELSE old

\* 'ended' -> ended.value = true
EndedAfter(ev, old) == IF ev = "ended" THEN TRUE ELSE old

\* ------------------------------------------------- picture in picture
\* mutant: document, without the 'pictureInPictureEnabled' in document test
SupportsWithDocument == hasDocument

\* document && 'pictureInPictureEnabled' in document
supportsPictureInPicture == hasDocument /\ pipInDocument

\* mutant: the callback runs whatever the ref holds
UsingElRefAlways(e) == TRUE

\* usingElRef: the callback runs if the ref holds an element
UsingElRef(e) == e # 0

\* the receiver of exitPictureInPicture()
Document == 0

\* mutant: the test of isPictureInPicture.value is the wrong way round
PipRequestInverted(e, pip) ==
  IF pip THEN [req |-> "enter", on |-> e] ELSE [req |-> "exit", on |-> Document]

\* el.requestPictureInPicture() / document.exitPictureInPicture()
PipRequest(e, pip) ==
  IF ~pip THEN [req |-> "enter", on |-> e] ELSE [req |-> "exit", on |-> Document]

\* the callback not run, or run without support: no request is made
NoRequest == [req |-> "none", on |-> Document]

\* .then(resolve).catch(reject)
Chain(outcome) == IF outcome = "fulfilled" THEN "resolved" ELSE "rejected"

\* ------------------------------------------------------------- actions
\* the element ref changes (attach, detach, swap); the listeners follow the
\* ref, so the events of the former element reach no listener any more
SetTarget(e) ==
  /\ e # target
  /\ nLoads < MaxLoads
  /\ target' = e
  /\ events' = <<>>
  /\ tuPending' = FALSE
  /\ IF torn
       THEN /\ modes' \in ModesOf(e)
            /\ UNCHANGED <<elSources, nLoads, elTracks, selectedTrack>>
            /\ UNCHANGED <<elAttrs, elVolume, watching, trackListEl>>
       ELSE /\ OptionsEffect(e, opts, volume)
            /\ SourceEffect(e, src)
            /\ \E ms \in ModesOf(e) : TrackEffect(e, tracks, ms)
            /\ TrackListWatch(e)
  /\ lastCall' = NoCall
  /\ UNCHANGED <<hasDocument, src, tracks>>
  /\ UNCHANGED <<currentTime, ctQueue, elTime, nTimeWrites, nSeeks, nSeekSkips>>
  /\ UNCHANGED <<playing, plQueue, elPaused, nPlayWrites, nPlay, nPause, nPlaySkips>>
  /\ UNCHANGED <<torn, tracksRef, nSourceErrors, volume, opts, flagVars, pipVars>>

\* caller: currentTime.value = v
SetCurrentTime(v) ==
  /\ nTimeWrites + nPlayWrites < MaxWrites
  /\ HasRoom
  /\ currentTime' = v
  /\ ctQueue' = Trigger(ctQueue, currentTime, v)
  /\ nTimeWrites' = IF v = currentTime THEN nTimeWrites ELSE nTimeWrites + 1
  /\ UNCHANGED auxVars
  /\ UNCHANGED <<target, hasDocument, srcVars, trackVars, elTime, tuPending, nSeeks, nSeekSkips, playVars>>

\* the callback of ignorableWatch(currentTime, ...); a seek makes the
\* element fire timeupdate
CurrentTimeCallback(time) ==
  IF target = 0
    THEN /\ nSeekSkips' = nSeekSkips + 1
         /\ UNCHANGED <<elTime, nSeeks, tuPending>>
    ELSE /\ elTime' = [elTime EXCEPT ![target] = time]
         /\ nSeeks' = nSeeks + 1
         /\ tuPending' = TRUE
         /\ UNCHANGED nSeekSkips

\* propagation of the oldest pending write to currentTime
FlushCurrentTime ==
  /\ ctQueue # <<>>
  /\ ctQueue' = Tail(ctQueue)
  /\ IF Head(ctQueue).ign
       THEN UNCHANGED <<elTime, nSeeks, nSeekSkips, tuPending>>
       ELSE CurrentTimeCallback(Head(ctQueue).val)
  /\ UNCHANGED auxVars
  /\ UNCHANGED <<target, hasDocument, srcVars, trackVars, currentTime, nTimeWrites, playVars>>

\* native: playback moves the position of the bound element
Progress(t) ==
  /\ target # 0
  /\ t # elTime[target]
  /\ elTime' = [elTime EXCEPT ![target] = t]
  /\ tuPending' = TRUE
  /\ UNCHANGED auxVars
  /\ UNCHANGED <<target, hasDocument, srcVars, trackVars, currentTime, ctQueue, nTimeWrites, nSeeks, nSeekSkips, playVars>>

\* useEventListener(target, 'timeupdate', ...)
OnTimeUpdate ==
  /\ tuPending
  /\ HasRoom
  /\ tuPending' = FALSE
  /\ currentTime' = TimeUpdateValue
  /\ ctQueue' = TimeUpdateListener(ctQueue, currentTime, TimeUpdateValue)
  /\ UNCHANGED auxVars
  /\ UNCHANGED <<target, hasDocument, srcVars, trackVars, elTime, nTimeWrites, nSeeks, nSeekSkips, playVars>>

\* caller: playing.value = b
SetPlaying(b) ==
  /\ nTimeWrites + nPlayWrites < MaxWrites
  /\ HasRoom
  /\ playing' = b
  /\ plQueue' = Trigger(plQueue, playing, b)
  /\ nPlayWrites' = IF b = playing THEN nPlayWrites ELSE nPlayWrites + 1
  /\ UNCHANGED auxVars
  /\ UNCHANGED <<target, hasDocument, srcVars, trackVars, events, elPaused, nPlay, nPause, nPlaySkips, timeVars>>

\* el.play() and el.pause() fire their event only when they change el.paused
MediaEvent(e, isPlaying) ==
  IF elPaused[e] = ~isPlaying THEN events
  ELSE Append(events, IF isPlaying THEN "play" ELSE "pause")

\* mutant: el.paused ? el.play() : el.pause(), whatever the caller wrote
PlayingCallbackToggle(isPlaying) ==
  IF target = 0
    THEN /\ nPlaySkips' = nPlaySkips + 1
         /\ UNCHANGED <<elPaused, nPlay, nPause, events>>
    ELSE /\ elPaused' = [elPaused EXCEPT ![target] = ~@]
         /\ nPlay' = IF elPaused[target] THEN nPlay + 1 ELSE nPlay
         /\ nPause' = IF elPaused[target] THEN nPause ELSE nPause + 1
         /\ events' = MediaEvent(target, elPaused[target])
         /\ UNCHANGED nPlaySkips

\* the callback of ignorableWatch(playing, ...)
PlayingCallback(isPlaying) ==
  IF target = 0
    THEN /\ nPlaySkips' = nPlaySkips + 1
         /\ UNCHANGED <<elPaused, nPlay, nPause, events>>
    ELSE /\ elPaused' = [elPaused EXCEPT ![target] = ~isPlaying]
         /\ nPlay' = IF isPlaying THEN nPlay + 1 ELSE nPlay
         /\ nPause' = IF isPlaying THEN nPause ELSE nPause + 1
         /\ events' = MediaEvent(target, isPlaying)
         /\ UNCHANGED nPlaySkips

\* propagation of the oldest pending write to playing
FlushPlaying ==
  /\ plQueue # <<>>
  /\ Len(events) < MaxEvents
  /\ plQueue' = Tail(plQueue)
  /\ IF Head(plQueue).ign
       THEN UNCHANGED <<elPaused, nPlay, nPause, nPlaySkips, events>>
       ELSE PlayingCallback(Head(plQueue).val)
  /\ UNCHANGED auxVars
  /\ UNCHANGED <<target, hasDocument, srcVars, trackVars, playing, nPlayWrites, timeVars>>

\* native: the user (or the end of the media) pauses or resumes the bound
\* element
NativePlayPause ==
  /\ target # 0
  /\ Len(events) < MaxEvents
  /\ elPaused' = [elPaused EXCEPT ![target] = ~elPaused[target]]
  /\ events' = MediaEvent(target, elPaused[target])
  /\ UNCHANGED auxVars
  /\ UNCHANGED <<target, hasDocument, srcVars, trackVars, playing, plQueue, nPlayWrites, nPlay, nPause, nPlaySkips, timeVars>>

\* useEventListener(target, 'pause' | 'play', ...)
OnPlayPause ==
  /\ events # <<>>
  /\ HasRoom
  /\ events' = Tail(events)
  /\ playing' = (Head(events) = "play")
  /\ plQueue' = PlayPauseListener(plQueue, playing, Head(events) = "play")
  /\ UNCHANGED auxVars
  /\ UNCHANGED <<target, hasDocument, srcVars, trackVars, elPaused, nPlayWrites, nPlay, nPause, nPlaySkips, timeVars>>

\* caller: options.src.value = v; the source watchEffect runs again
SetSrc(v) ==
  /\ nLoads < MaxLoads
  /\ v # src \/ v.kind \in {"desc", "list"}
  /\ src' = v
  /\ SourceEffect(target, v)
  /\ UNCHANGED auxVars
  /\ UNCHANGED <<target, hasDocument, timeVars, playVars, trackVars>>

\* caller: options.tracks.value = l; the tracks watchEffect runs again
SetTracks(l) ==
  /\ tracks' = l
  /\ TrackEffect(target, l, modes)
  /\ lastCall' = NoCall
  /\ UNCHANGED auxVars
  /\ UNCHANGED <<target, hasDocument, timeVars, playVars, srcVars>>

\* disableTrack(track); an id out of range throws at el.textTracks[id].mode
DisableTrack(track) ==
  /\ IF target = 0 THEN UNCHANGED <<modes, selectedTrack>>
     ELSE IF track # NoTrack /\ TrackGiven(track)
       THEN IF track.id < Len(modes)
              THEN /\ modes' = [modes EXCEPT ![track.id + 1] = "disabled"]
                   /\ selectedTrack' = -1
              ELSE UNCHANGED <<modes, selectedTrack>>
       ELSE /\ modes' = DisableAll(modes)
            /\ selectedTrack' = -1
  /\ lastCall' = [op |-> "disableTrack", track |-> track]
  /\ UNCHANGED auxVars
  /\ UNCHANGED <<target, hasDocument, timeVars, playVars, srcVars>>
  /\ UNCHANGED <<tracks, elTracks>>

\* enableTrack(track, disableTracks); an id out of range throws at
\* el.textTracks[id].mode, after disableTrack() has run
EnableTrack(track, disableTracks) ==
  /\ IF target = 0 THEN UNCHANGED <<modes, selectedTrack>>
     ELSE LET ms == IF disableTracks THEN DisableAll(modes) ELSE modes
              sel == IF disableTracks THEN -1 ELSE selectedTrack
          IN IF track.id < Len(modes)
               THEN /\ modes' = [ms EXCEPT ![track.id + 1] = "showing"]
                    /\ selectedTrack' = track.id
               ELSE /\ modes' = ms
                    /\ selectedTrack' = sel
  /\ lastCall' = [op |-> "enableTrack", track |-> track, disableTracks |-> disableTracks]
  /\ UNCHANGED auxVars
  /\ UNCHANGED <<target, hasDocument, timeVars, playVars, srcVars>>
  /\ UNCHANGED <<tracks, elTracks>>

\* native: the page or the user changes the mode of a text track
NativeTrackMode(i, m) ==
  /\ target # 0 /\ i \in 1..Len(modes) /\ m # modes[i]
  /\ modes' = [modes EXCEPT ![i] = m]
  /\ UNCHANGED auxVars
  /\ UNCHANGED <<target, hasDocument, timeVars, playVars, srcVars>>
  /\ lastCall' = NoCall
  /\ UNCHANGED <<tracks, elTracks, selectedTrack>>

\* caller: options.<n>.value = v; the options watchEffect runs again
SetOption(n, v) ==
  /\ v # opts[n]
  /\ opts' = [opts EXCEPT ![n] = v]
  /\ OptionsEffect(target, opts', volume)
  /\ UNCHANGED <<target, hasDocument, timeVars, playVars, srcVars, trackVars>>
  /\ UNCHANGED <<volume, listenVars, flagVars, pipVars>>

\* the callback of watch(volume, ...)
VolumeCallback(vol) ==
  IF target = 0
    THEN UNCHANGED elVolume
    ELSE elVolume' = [elVolume EXCEPT ![target] = vol]

\* caller: volume.value = v; watch(volume) and the options watchEffect,
\* which reads unref(volume), both run
SetVolume(v) ==
  /\ v # volume
  /\ volume' = v
  /\ OptionsEffect(target, opts, v)
  /\ VolumeCallback(v)
  /\ UNCHANGED <<target, hasDocument, timeVars, playVars, srcVars, trackVars>>
  /\ UNCHANGED <<opts, listenVars, flagVars, pipVars>>

\* native: the user changes the volume of the bound element with its own
\* controls; the controller registers no listener for volumechange
NativeVolume(v) ==
  /\ target # 0
  /\ v # elVolume[target]
  /\ elVolume' = [elVolume EXCEPT ![target] = v]
  /\ UNCHANGED <<target, hasDocument, timeVars, playVars, srcVars, trackVars>>
  /\ UNCHANGED <<volume, opts, elAttrs, listenVars, flagVars, pipVars>>

\* useEventListener(target, ...): the listener is on the element the ref
\* holds, until the owner is unmounted
Listening(e) == e # 0 /\ e = target /\ ~torn

\* useEventListener(target, ev, ...) for the events of the four flags: the
\* bound element fires ev and its listener runs
NativeFlagEvent(ev) ==
  /\ Listening(target)
  /\ seeking' = SeekingAfter(ev, seeking)
  /\ waiting' = WaitingAfter(ev, waiting)
  /\ stalled' = StalledAfter(ev, stalled)
  /\ ended' = EndedAfter(ev, ended)
  /\ UNCHANGED <<target, hasDocument, timeVars, playVars, srcVars, trackVars>>
  /\ UNCHANGED <<listenVars, optVars, pipVars>>

\* togglePictureInPicture(): a new promise, with the element the ref held
\* at the call; the request, if one is made, is pending
TogglePictureInPicture ==
  /\ Len(promises) < MaxToggles
  /\ promises' =
       Append(promises,
              [el |-> target,
               request |-> IF UsingElRef(target) /\ supportsPictureInPicture
                             THEN PipRequest(target, isPictureInPicture)
                             ELSE NoRequest,
               outcome |-> "pending",
               state |-> "pending"])
  /\ UNCHANGED <<target, hasDocument, timeVars, playVars, srcVars, trackVars>>
  /\ UNCHANGED <<isPictureInPicture, pipInDocument, listenVars, optVars, flagVars>>

\* native: the browser fulfils or rejects the i-th request; the reactions
\* chained to it settle the promise of the call
SettleRequest(i, ok) ==
  /\ i \in 1..Len(promises)
  /\ promises[i].request.req # "none"
  /\ promises[i].outcome = "pending"
  /\ LET outcome == IF ok THEN "fulfilled" ELSE "rejected"
     IN promises' = [promises EXCEPT ![i].outcome = outcome,
                                     ![i].state = Chain(outcome)]
  /\ UNCHANGED <<target, hasDocument, timeVars, playVars, srcVars, trackVars>>
  /\ UNCHANGED <<isPictureInPicture, pipInDocument, listenVars, optVars, flagVars>>

\* useEventListener(target, 'enterpictureinpicture' | 'leavepictureinpicture'):
\* the bound element fires the event and its listener runs
NativePipEvent(entered) ==
  /\ Listening(target)
  /\ isPictureInPicture' = entered
  /\ UNCHANGED <<target, hasDocument, timeVars, playVars, srcVars, trackVars>>
  /\ UNCHANGED <<pipInDocument, promises, listenVars, optVars, flagVars>>

\* native: addtrack, removetrack or change fires on the textTracks of
\* element e; the listener, if e carries it, rebuilds tracks
TrackListEvent(e) ==
  /\ \E ms \in TextTrackModes(e) :
       tracksRef' = IF trackListEl = e
                      THEN TracksToArray(elTracks[e], ms)
                      ELSE tracksRef
  /\ UNCHANGED <<target, hasDocument, timeVars, playVars, srcVars, trackVars>>
  /\ UNCHANGED <<torn, watching, trackListEl, nSourceErrors, optVars, flagVars, pipVars>>

\* native: the i-th <source> child of element e fails to load and fires
\* error; sourceErrorEvent.trigger runs if the child carries it
SourceError(e, i) ==
  /\ i \in 1..Len(elSources[e])
  /\ nSourceErrors < MaxErrors
  /\ nSourceErrors' = IF elSources[e][i].err THEN nSourceErrors + 1 ELSE nSourceErrors
  /\ UNCHANGED <<target, hasDocument, timeVars, playVars, srcVars, trackVars>>
  /\ UNCHANGED <<torn, watching, trackListEl, tracksRef, optVars, flagVars, pipVars>>

\* the owner is unmounted: the watchers and effects stop, the listeners of
\* useEventListener are released, and the two tryOnUnmounted callbacks run
Teardown ==
  /\ ~torn
  /\ torn' = TRUE
  /\ watching' = FALSE
  /\ trackListEl' = 0
  /\ elSources' = IF target = 0 THEN elSources
                  ELSE [elSources EXCEPT ![target] = RemoveErrorListeners(@)]
  /\ events' = <<>> /\ tuPending' = FALSE
  /\ ctQueue' = <<>> /\ plQueue' = <<>>
  /\ UNCHANGED <<target, hasDocument, src, nLoads, trackVars>>
  /\ UNCHANGED <<currentTime, elTime, nTimeWrites, nSeeks, nSeekSkips>>
  /\ UNCHANGED <<playing, elPaused, nPlayWrites, nPlay, nPause, nPlaySkips>>
  /\ UNCHANGED <<tracksRef, nSourceErrors, optVars, flagVars, pipVars>>

\* ------------------------------------------------------- specification
\* the state after useMediaControls(target, options) returns: the ref may
\* already hold an element; a media element starts paused at position 0
InitRefs ==
  /\ currentTime = 0 /\ ctQueue = <<>>
  /\ elTime = [e \in Els |-> 0]
  /\ tuPending = FALSE
  /\ nTimeWrites = 0 /\ nSeeks = 0 /\ nSeekSkips = 0
  /\ playing = FALSE /\ plQueue = <<>>
  /\ elPaused = [e \in Els |-> TRUE]
  /\ events = <<>>
  /\ nPlayWrites = 0 /\ nPlay = 0 /\ nPause = 0 /\ nPlaySkips = 0
  /\ torn = FALSE /\ watching = TRUE /\ trackListEl = 0
  /\ tracksRef = <<>> /\ nSourceErrors = 0
  /\ volume = InitVolume
  /\ seeking = FALSE /\ waiting = FALSE /\ stalled = FALSE /\ ended = FALSE
  /\ isPictureInPicture = FALSE /\ promises = <<>>

\* no scalar option given, untouched elements at full volume, a document
\* with picture in picture
InitPlain ==
  /\ opts = NoOptions
  /\ elAttrs = [e \in Els |-> DefaultAttrs]
  /\ elVolume = [e \in Els |-> InitVolume]
  /\ pipInDocument = TRUE

\* the first run of the effects, at construction, on elements not touched yet
FirstRun(e, v) ==
  \E kids \in [Els -> {<<>>, <<ForeignSource>>}] :
    IF ~hasDocument \/ e = 0 \/ Falsy(v)
      THEN elSources = kids /\ nLoads = 0
      ELSE /\ elSources = [kids EXCEPT ![e] = AddSources(ClearSources(@), v)]
           /\ nLoads = 1

\* default options (src: '', tracks: []) and a document
InitDefault ==
  /\ target \in 0..NumEls
  /\ hasDocument = TRUE
  /\ src = DefaultSrc
  /\ elSources = [e \in Els |-> <<>>]
  /\ nLoads = 0
  /\ tracks = <<>> /\ elTracks = [e \in Els |-> <<>>] /\ modes = <<>>
  /\ selectedTrack = -1 /\ lastCall = NoCall
  /\ InitRefs /\ InitPlain

\* any src option, with or without a document
InitSrc ==
  /\ target \in 0..NumEls
  /\ hasDocument \in BOOLEAN
  /\ src \in {DefaultSrc, [kind |-> "string", url |-> "a.mp4"]}
  /\ FirstRun(target, src)
  /\ tracks = <<>> /\ elTracks = [e \in Els |-> <<>>] /\ modes = <<>>
  /\ selectedTrack = -1 /\ lastCall = NoCall
  /\ InitRefs /\ InitPlain

\* the element the track operations are followed on
TheEl == CHOOSE e \in Els : TRUE

\* the default tracks option, on an element that may hold a <track> child
\* of the page, whose text track is in any mode
InitTrack ==
  /\ target \in {0, TheEl}
  /\ hasDocument \in BOOLEAN
  /\ src = DefaultSrc /\ elSources = [e \in Els |-> <<>>] /\ nLoads = 0
  /\ tracks = <<>>
  /\ elTracks \in [Els -> {<<>>, <<ForeignTrack>>}]
  /\ \A e \in Els \ {TheEl} : elTracks[e] = <<>>
  /\ modes \in ModesOf(target)
  /\ selectedTrack = -1 /\ lastCall = NoCall
  /\ InitRefs /\ InitPlain

TimeStep ==
  \/ \E v \in Times : SetCurrentTime(v)
  \/ FlushCurrentTime
  \/ \E t \in Times : Progress(t)
  \/ OnTimeUpdate

PlayStep ==
  \/ \E b \in BOOLEAN : SetPlaying(b)
  \/ FlushPlaying
  \/ NativePlayPause
  \/ OnPlayPause

Rebind == \E e \in 0..NumEls : SetTarget(e)

\* the currentTime binding, with the element ref changing
NextTime == Rebind \/ TimeStep
SpecTime == InitDefault /\ [][NextTime]_vars

\* the playing binding, with the element ref changing
NextPlay == Rebind \/ PlayStep
SpecPlay == InitDefault /\ [][NextPlay]_vars

\* both bindings interleaved on an element bound from the start
NextBidi == TimeStep \/ PlayStep
InitBound == InitDefault /\ target # 0
SpecBidi == InitBound /\ [][NextBidi]_vars

\* the source reconciliation, with the element ref changing
NextSrc == Rebind \/ \E v \in SrcValues : SetSrc(v)
SpecSrc == InitSrc /\ [][NextSrc]_vars

\* the track reconciliation and the track selection operations, with one
\* element attached to and detached from the ref
NextTrack ==
  \/ \E e \in {0, TheEl} : SetTarget(e)
  \/ \E l \in TrackLists : SetTracks(l)
  \/ \E t \in TrackArgs, b \in BOOLEAN : EnableTrack(t, b)
  \/ \E t \in TrackArgs \cup {NoTrack} : DisableTrack(t)
  \/ \E i \in 1..MaxTracks, m \in Modes : NativeTrackMode(i, m)
SpecTrack == InitTrack /\ [][NextTrack]_vars

\* the listeners of the controller over its life: the ref changes, the
\* elements, their track collections and their <source> children fire
\* events, and the owner is unmounted
InitListen ==
  /\ target \in 0..NumEls
  /\ hasDocument = TRUE
  /\ src \in {DefaultSrc, [kind |-> "string", url |-> "a.mp4"]}
  /\ FirstRun(target, src)
  /\ tracks = <<>>
  /\ elTracks \in [Els -> {<<>>, <<ForeignTrack>>}]
  /\ modes \in ModesOf(target)
  /\ selectedTrack = -1 /\ lastCall = NoCall
  /\ InitRefs /\ InitPlain
NextListen ==
  \/ Rebind
  \/ Teardown
  \/ \E e \in Els : TrackListEvent(e)
  \/ \E e \in Els, i \in 1..MaxSources : SourceError(e, i)
SpecListen == InitListen /\ [][NextListen]_vars

\* the first run of the options watchEffect, at construction, on elements
\* whose attributes and volume are the page's
InitOpt ==
  /\ target \in 0..NumEls
  /\ hasDocument = TRUE /\ pipInDocument = TRUE
  /\ src = DefaultSrc /\ elSources = [e \in Els |-> <<>>] /\ nLoads = 0
  /\ tracks = <<>> /\ elTracks = [e \in Els |-> <<>>] /\ modes = <<>>
  /\ selectedTrack = -1 /\ lastCall = NoCall
  /\ InitRefs
  /\ opts \in {NoOptions, [NoOptions EXCEPT !["loop"] = "true"]}
  /\ \E attrs \in {DefaultAttrs, PageAttrs}, vol \in Volumes :
       /\ elAttrs = [e \in Els |-> IF e = target THEN ApplyOptions(attrs, opts)
                                                  ELSE attrs]
       /\ elVolume = [e \in Els |-> IF e = target THEN volume ELSE vol]

\* the options the caller changes: a boolean and an enumeration
WrittenOptions == {"loop", "preload"}

\* the option reconciliation, with the element ref changing
NextOpt ==
  \/ Rebind
  \/ \E n \in WrittenOptions : \E v \in OptionValues(n) \cup {Unset} : SetOption(n, v)
  \/ \E v \in Volumes : SetVolume(v)
SpecOpt == InitOpt /\ [][NextOpt]_vars

\* the volume binding, with the element ref changing
NextVolume ==
  \/ Rebind
  \/ \E v \in Volumes : SetVolume(v)
  \/ \E v \in Volumes : NativeVolume(v)
SpecVolume == InitOpt /\ [][NextVolume]_vars

\* the four flags, under native events, caller writes and rebinding
NextFlags ==
  \/ Rebind
  \/ \E ev \in FlagEvents : NativeFlagEvent(ev)
  \/ \E v \in Volumes : SetVolume(v)
  \/ \E b \in BOOLEAN : SetPlaying(b)
  \/ FlushPlaying
SpecFlags == InitDefault /\ [][NextFlags]_vars

\* picture in picture, with or without a document that supports it
InitPip ==
  /\ target \in 0..NumEls
  /\ hasDocument \in BOOLEAN
  /\ pipInDocument \in (IF hasDocument THEN BOOLEAN ELSE {FALSE})
  /\ src = DefaultSrc /\ elSources = [e \in Els |-> <<>>] /\ nLoads = 0
  /\ tracks = <<>> /\ elTracks = [e \in Els |-> <<>>] /\ modes = <<>>
  /\ selectedTrack = -1 /\ lastCall = NoCall
  /\ InitRefs
  /\ opts = NoOptions
  /\ elAttrs = [e \in Els |-> DefaultAttrs]
  /\ elVolume = [e \in Els |-> InitVolume]
NextPip ==
  \/ Rebind
  \/ TogglePictureInPicture
  \/ \E i \in 1..MaxToggles, ok \in BOOLEAN : SettleRequest(i, ok)
  \/ \E entered \in BOOLEAN : NativePipEvent(entered)
SpecPip == InitPip /\ [][NextPip]_vars

\* ===================================================== claims C1 - C5
\* a step in which the controller assigns el.currentTime
Seeks == nSeeks' # nSeeks

\* a step in which the controller calls el.play() or el.pause()
PlaysOrPauses == nPlay' # nPlay \/ nPause' # nPause

\* every write of the caller to currentTime is accounted for: propagated
\* into one seek, dropped by one callback run that found no element, or
\* still pending
TimeWritesAccounted == nSeeks + nSeekSkips + Live(ctQueue) = nTimeWrites

\* every assignment to el.currentTime is the propagation of one pending
\* caller write and assigns the value the caller wrote
SeekIsCallerWrite ==
  Seeks =>
    /\ ctQueue # <<>> /\ ~Head(ctQueue).ign /\ ctQueue' = Tail(ctQueue)
    /\ target # 0 /\ elTime'[target] = Head(ctQueue).val
    /\ nSeeks' = nSeeks + 1

\* a caller write that changes currentTime queues exactly its own value
CallerTimeWriteQueued ==
  nTimeWrites' # nTimeWrites =>
    /\ nTimeWrites' = nTimeWrites + 1
    /\ ctQueue' = Append(ctQueue, Notify(currentTime'))

\* the delivery of a timeupdate event assigns nothing to el.currentTime,
\* now or later: it adds no write whose propagation invokes the callback
TimeUpdateSeeksNothing ==
  OnTimeUpdate => /\ elTime' = elTime /\ nSeeks' = nSeeks
                  /\ Live(ctQueue') = Live(ctQueue)

\* C1: with an element bound (no callback run skipped for want of one),
\* a caller write currentTime.value = v causes exactly one assignment
\* el.currentTime = v, and the timeupdate echo causes no second one.
C1_CallerWriteSeeksOnce ==
  /\ [](nSeekSkips = 0 => nSeeks + Live(ctQueue) = nTimeWrites)
  /\ [][SeekIsCallerWrite /\ CallerTimeWriteQueued /\ TimeUpdateSeeksNothing]_vars

\* C1 witness: one caller write reached the bound element as one seek, the
\* timeupdate the seek fired has been delivered, and nothing is pending
C1_Witness ==
  /\ target # 0 /\ nTimeWrites = 1 /\ nSeeks = 1 /\ nSeekSkips = 0
  /\ ctQueue = <<>> /\ ~tuPending
  /\ currentTime # 0 /\ currentTime = elTime[target]

\* C2: immediately after a timeupdate event fired while the element's
\* position is v, currentTime equals v; the write the event makes never
\* becomes an assignment to el.currentTime (there are never more seeks
\* than caller writes).
C2_TimeUpdateMirrorsPosition ==
  /\ [][OnTimeUpdate => currentTime' = elTime[target] /\ elTime' = elTime]_vars
  /\ [][OnTimeUpdate => nSeeks' = nSeeks /\ Live(ctQueue') = Live(ctQueue)]_vars
  /\ [](nSeeks + Live(ctQueue) <= nTimeWrites)

\* C2 witness: the caller wrote nothing, events alone moved currentTime to
\* the element's position, their propagation completed, and no seek ran
C2_Witness ==
  /\ target # 0 /\ nTimeWrites = 0 /\ currentTime # 0
  /\ currentTime = elTime[target] /\ ctQueue = <<>> /\ ~tuPending /\ nSeeks = 0

\* every call of el.play() / el.pause() is the propagation of one pending
\* caller write of true / false
PlayIsCallerWrite ==
  PlaysOrPauses =>
    /\ plQueue # <<>> /\ ~Head(plQueue).ign /\ plQueue' = Tail(plQueue)
    /\ target # 0 /\ elPaused'[target] = ~Head(plQueue).val
    /\ nPlay' = nPlay + (IF Head(plQueue).val THEN 1 ELSE 0)
    /\ nPause' = nPause + (IF Head(plQueue).val THEN 0 ELSE 1)

\* a caller write that changes playing queues exactly its own value
CallerPlayWriteQueued ==
  nPlayWrites' # nPlayWrites =>
    /\ nPlayWrites' = nPlayWrites + 1
    /\ plQueue' = Append(plQueue, Notify(playing'))

\* the delivery of a play / pause event sets playing and calls neither
\* el.play() nor el.pause(), now or later
PlayEventCallsNothing ==
  OnPlayPause => /\ playing' = (Head(events) = "play")
                 /\ elPaused' = elPaused /\ nPlay' = nPlay /\ nPause' = nPause
                 /\ Live(plQueue') = Live(plQueue)

\* C3: with an element bound, a caller write playing.value = true calls
\* el.play() exactly once; the play event that follows sets playing to
\* true without another el.play(), and a pause event sets playing to
\* false without el.pause().
C3_CallerPlayCallsOnce ==
  /\ [](nPlaySkips = 0 => nPlay + nPause + Live(plQueue) = nPlayWrites)
  /\ [][PlayIsCallerWrite /\ CallerPlayWriteQueued /\ PlayEventCallsNothing]_vars

\* C3 witness: the caller wrote true once, el.play() ran once, the play
\* event it fired has been delivered, and nothing is pending
C3_Witness ==
  /\ target # 0 /\ nPlayWrites = 1 /\ nPlay = 1 /\ nPause = 0 /\ nPlaySkips = 0
  /\ playing /\ ~elPaused[target] /\ plQueue = <<>> /\ events = <<>>

\* C4: under every interleaving of caller writes and native events on
\* currentTime and playing, also with a caller write and an event write
\* pending together, each caller write reaches the element exactly once
\* with the caller's value and no event write mutates the element.
C4_BidirectionalExactlyOnce ==
  /\ [](nSeeks + Live(ctQueue) = nTimeWrites)
  /\ [](nPlay + nPause + Live(plQueue) = nPlayWrites)
  /\ [][SeekIsCallerWrite /\ CallerTimeWriteQueued]_vars
  /\ [][PlayIsCallerWrite /\ CallerPlayWriteQueued]_vars
  /\ [][OnTimeUpdate \/ OnPlayPause =>
          /\ elTime' = elTime /\ elPaused' = elPaused
          /\ nSeeks' = nSeeks /\ nPlay' = nPlay /\ nPause' = nPause
          /\ Live(ctQueue') = Live(ctQueue) /\ Live(plQueue') = Live(plQueue)]_vars

\* C4 witness: a caller write and an event write to currentTime are pending
\* together, after an earlier caller write already reached the element
C4_Witness ==
  /\ target # 0 /\ Len(ctQueue) = 2 /\ Live(ctQueue) = 1
  /\ nSeeks + nPlay + nPause >= 1

\* no pending propagation and no undelivered play / pause event
Settled == plQueue = <<>> /\ events = <<>>

\* C5: in every settled state with an element bound, playing equals "the
\* element is not paused", also after a write to playing made while no
\* element was bound and after a rebind.
C5_PlayingMirrorsElement ==
  (target # 0 /\ Settled) => (playing = ~elPaused[target])

\* ===================================================== claims C6 - C7
\* a run of the source watchEffect: the ref or the src option changed, to
\* the value it has after the step
SourceRun == SetTarget(target') \/ SetSrc(src')

\* what the claim expects of a src value: a string gives one child with
\* that url and an empty codec type, a descriptor one child, a list one
\* child per entry in order; each with its error listener
ExpectedChild(url, type) ==
  [src |-> url, type |-> IF type = "none" THEN "" ELSE type, err |-> TRUE]
ExpectedSources(v) ==
  IF v.kind = "string" THEN <<ExpectedChild(v.url, "none")>>
  ELSE IF v.kind = "desc" THEN <<ExpectedChild(v.d.src, v.d.type)>>
  ELSE [i \in 1..Len(v.l) |-> ExpectedChild(v.l[i].src, v.l[i].type)]

\* C6: after every source reconciliation with element and document present
\* and a non-falsy src, the source children of the element are exactly the
\* normalized src list in order, no earlier child remains, and load() ran
\* exactly once.
C6_SourcesRebuilt ==
  [][(SourceRun /\ hasDocument /\ target' # 0 /\ ~(src'.kind = "unset")
        /\ ~(src'.kind = "string" /\ src'.url = ""))
      => /\ elSources'[target'] = ExpectedSources(src')
         /\ nLoads' = nLoads + 1
         /\ \A e \in Els \ {target'} : elSources'[e] = elSources[e]]_vars

\* C6 witness: a second reconciliation left exactly the two children of a
\* two-entry list, in order
C6_Witness ==
  /\ target # 0 /\ hasDocument /\ nLoads = 2
  /\ src = [kind |-> "list", l |-> <<[src |-> "a.mp4", type |-> "video/mp4"],
                                     [src |-> "a.ogv", type |-> "none"]>>]
  /\ elSources[target] = <<[src |-> "a.mp4", type |-> "video/mp4", err |-> TRUE],
                           [src |-> "a.ogv", type |-> "", err |-> TRUE]>>

\* C7: with a falsy src (undefined or the empty string), with no element
\* or with no document, a run of the source effect leaves every source
\* child and its error listener as it was and does not call load().
C7_FalsySrcTouchesNothing ==
  [][(SourceRun /\ (~hasDocument \/ target' = 0 \/ src'.kind = "unset"
                      \/ (src'.kind = "string" /\ src'.url = "")))
      => elSources' = elSources /\ nLoads' = nLoads]_vars

\* C7 witness: src went back to the empty string on a bound element; the
\* children of the reconciliation before it are still there, listeners
\* attached, and load() ran for that reconciliation only
C7_Witness ==
  /\ target # 0 /\ hasDocument /\ src = [kind |-> "string", url |-> ""]
  /\ nLoads = 1 /\ Len(elSources[target]) = 2
  /\ \A i \in 1..2 : elSources[target][i].err

\* ==================================================== claims C8 - C10
\* a run of the tracks watchEffect: the ref or the tracks option changed,
\* to the value it has after the step
TrackRun == SetTarget(target') \/ SetTracks(tracks')

\* the positions (from 1) of the descriptors marked default
DefaultsOf(l) == {i \in 1..Len(l) : l[i].default = "true"}
LastOf(S) == CHOOSE i \in S : \A j \in S : j <= i

\* C8: after a track reconciliation over a non-empty descriptor list on a
\* bound element, the <track> children are exactly one per descriptor in
\* order, and if a descriptor is marked default, selectedTrack is the index
\* of the last one marked default.
C8_TracksRebuilt ==
  [][(TrackRun /\ hasDocument /\ target' # 0 /\ tracks' # <<>>)
      => /\ Len(elTracks'[target']) = Len(tracks')
         /\ \A i \in 1..Len(tracks') :
              /\ elTracks'[target'][i].label = tracks'[i].label
              /\ elTracks'[target'][i].default = (tracks'[i].default = "true")
         /\ DefaultsOf(tracks') # {} => selectedTrack' = LastOf(DefaultsOf(tracks')) - 1]_vars

\* C8 witness: defaults [none, true] reconciled on a bound element:
\* two children in order, fresh text tracks, selectedTrack = 1
C8_Witness ==
  /\ target # 0 /\ hasDocument
  /\ tracks = <<[label |-> "EN", default |-> "none"], [label |-> "FR", default |-> "true"]>>
  /\ elTracks[target] = <<[label |-> "EN", default |-> FALSE], [label |-> "FR", default |-> TRUE]>>
  /\ modes = <<"disabled", "disabled">>
  /\ selectedTrack = 1

\* the modes after "exactly track k showing, every other track disabled"
OnlyShowing(ms, k) == [i \in 1..Len(ms) |-> IF i = k + 1 THEN "showing" ELSE "disabled"]

\* C9: with an element bound, enableTrack(k) with disableOthers at its
\* default leaves track k showing, every other track disabled and
\* selectedTrack = k, whatever preceded it; disableTrack() leaves every
\* track disabled and selectedTrack = -1.
C9_EnableShowsOnlyOne ==
  [][/\ \A t \in TrackArgs :
          (target # 0 /\ t.id < Len(modes) /\ EnableTrack(t, TRUE))
            => modes' = OnlyShowing(modes, t.id) /\ selectedTrack' = t.id
     /\ (target # 0 /\ DisableTrack(NoTrack))
            => /\ \A i \in 1..Len(modes') : modes'[i] = "disabled"
               /\ Len(modes') = Len(modes)
               /\ selectedTrack' = -1]_vars

\* C9 witness: enableTrack(1) has just run, after enableTrack(0) had left
\* track 0 selected: track 1 is showing and selected, track 0 disabled
C9_Witness ==
  /\ target # 0 /\ Len(modes) = 2
  /\ lastCall = [op |-> "enableTrack", track |-> [kind |-> "num", id |-> 1],
                 disableTracks |-> TRUE]
  /\ modes = <<"disabled", "showing">> /\ selectedTrack = 1

\* C10: with an element bound, disableTrack(t) for a specific track t (an
\* id or a descriptor carrying an id, every valid id, 0 included) disables
\* only that text track, leaves the mode of every other one unchanged and
\* resets selectedTrack to -1.
C10_DisableOnlyThatTrack ==
  [][\A t \in TrackArgs :
       (target # 0 /\ t.id < Len(modes) /\ DisableTrack(t))
         => /\ modes' = [modes EXCEPT ![t.id + 1] = "disabled"]
            /\ selectedTrack' = -1]_vars

\* =================================================== claims C11 - C12
\* a native event on element e: on its track collection or on one of its
\* <source> children
NativeEventOn(e) ==
  TrackListEvent(e) \/ \E i \in 1..MaxSources : SourceError(e, i)

\* C11: after teardown, and for an element that is not (or no longer)
\* bound, no native event on the element, its track collection or its
\* source children changes a state cell or fires the source-error hook.
C11_NoResidualListeners ==
  [][\A e \in Els :
       ((torn \/ e # target) /\ NativeEventOn(e))
         => (tracksRef' = tracksRef /\ nSourceErrors' = nSourceErrors)]_vars

\* C12: the three track-list listeners are attached once an element is
\* bound, whether the element is there at construction or comes later, and
\* they are on the bound element as long as it is the first one.
C12_TrackListListenersOnFirstBinding ==
  (~torn /\ target # 0) => trackListEl # 0

\* =================================================== claims C13 - C14
\* C13: without picture-in-picture support, no promise returned by
\* togglePictureInPicture() is ever resolved or rejected, and no entry or
\* exit request is ever made.
C13_UnsupportedNeverSettles ==
  ~(hasDocument /\ pipInDocument) =>
    \A i \in 1..Len(promises) :
      /\ promises[i].state = "pending"
      /\ promises[i].request.req = "none"

\* C13 witness: a document without picture in picture, an element bound,
\* and two calls made, one with the element bound
C13_Witness ==
  /\ hasDocument /\ ~pipInDocument /\ target # 0
  /\ Len(promises) = 2 /\ promises[2].el = target
  /\ promises[1].state = "pending" /\ promises[2].state = "pending"

\* the settled state of a promise that mirrors its request
Mirrors(p) ==
  \/ p.outcome = "pending" /\ p.state = "pending"
  \/ p.outcome = "fulfilled" /\ p.state = "resolved"
  \/ p.outcome = "rejected" /\ p.state = "rejected"

\* C14: with support and an element bound, the call requests entry on the
\* element if isPictureInPicture is false and exit on the document if it is
\* true, and does not write the flag; the promise resolves or rejects as
\* the request does; the flag changes only in the enter / leave listeners.
C14_ToggleRequestsAndMirrors ==
  /\ [][(hasDocument /\ pipInDocument /\ target # 0 /\ TogglePictureInPicture)
          => /\ promises' =
                  Append(promises,
                         [el |-> target,
                          request |-> IF isPictureInPicture
                                        THEN [req |-> "exit", on |-> 0]
                                        ELSE [req |-> "enter", on |-> target],
                          outcome |-> "pending", state |-> "pending"])
             /\ isPictureInPicture' = isPictureInPicture]_vars
  /\ [](\A i \in 1..Len(promises) :
          promises[i].request.req # "none" => Mirrors(promises[i]))
  /\ [][isPictureInPicture' # isPictureInPicture
          => \E entered \in BOOLEAN : NativePipEvent(entered)]_vars

\* C14 witness: an entry request on the bound element was fulfilled and its
\* promise resolved, the flag was set by the enter event, and the next call
\* requested exit on the document, which was rejected
C14_Witness ==
  /\ hasDocument /\ pipInDocument /\ target # 0 /\ isPictureInPicture
  /\ Len(promises) = 2
  /\ promises[1] = [el |-> target, request |-> [req |-> "enter", on |-> target],
                    outcome |-> "fulfilled", state |-> "resolved"]
  /\ promises[2] = [el |-> target, request |-> [req |-> "exit", on |-> 0],
                    outcome |-> "rejected", state |-> "rejected"]

\* =================================================== claims C15 - C16
\* a run of the options watchEffect: the ref, a scalar option or the volume
\* it reads has changed, to the value it has after the step
OptionsRun ==
  \/ SetTarget(target')
  \/ \E n \in OptionNames : SetOption(n, opts'[n])
  \/ SetVolume(volume')

\* C15: after every run of the options effect, each option that is set
\* equals the attribute of the element now bound (a newly bound one
\* included), each unset option has left its attribute as it was, the
\* volume is applied, and no other element is touched; with no element
\* bound nothing is mutated.
C15_OptionsApplied ==
  [][OptionsRun =>
       /\ \A e \in Els \ {target'} :
            elAttrs'[e] = elAttrs[e] /\ elVolume'[e] = elVolume[e]
       /\ target' # 0 =>
            /\ \A n \in OptionNames :
                 elAttrs'[target'][n] =
                   IF opts'[n] = "undefined" THEN elAttrs[target'][n] ELSE opts'[n]
            /\ elVolume'[target'] = volume']_vars

\* C15 witness: loop is set and preload is not, on an element whose
\* attributes the page had set: loop was overwritten, preload and poster
\* are the page's; the element bound before holds the option too
C15_Witness ==
  /\ target # 0
  /\ opts["loop"] = "false" /\ opts["preload"] = "undefined"
  /\ elAttrs[target]["loop"] = "false"
  /\ elAttrs[target]["preload"] = "none" /\ elAttrs[target]["poster"] = "b.png"
  /\ \E e \in Els \ {target} : elAttrs[e]["loop"] = "false" /\ elAttrs[e]["poster"] = "b.png"

\* C16: with an element bound, the volume state equals the element's
\* volume, after a caller write and after a change of the element's own
\* volume (every state of this model is settled: the watchers have run).
C16_VolumeMirrorsElement ==
  target # 0 => volume = elVolume[target]

\* =================================================== claims C17 - C18
\* C17: with an element bound, selectedTrack is -1 or an index into the
\* element's text tracks.
C17_SelectedTrackValid ==
  target # 0 => (selectedTrack = -1 \/ selectedTrack \in 0..(Len(modes) - 1))

\* C18: ended and stalled, once true, stay true under native events,
\* caller writes and rebinding; seeked resets seeking and playing resets
\* waiting.
C18_EndedAndStalledLatch ==
  [][/\ ended => ended'
     /\ stalled => stalled'
     /\ NativeFlagEvent("seeked") => ~seeking'
     /\ NativeFlagEvent("playing") => ~waiting']_vars

\* C18 witness: ended and stalled are set, seeking and waiting have been
\* reset, the caller has written playing and volume, and the element bound
\* now is neither the first nor the only one the ref has held
C18_Witness ==
  /\ ended /\ stalled /\ ~seeking /\ ~waiting
  /\ nPlay >= 1 /\ volume # 1
  /\ target # 0 /\ trackListEl # 0 /\ trackListEl # target

\* =================================================== claims C19 - C20
\* C19: the promise of a call made while no element was bound is never
\* resolved or rejected, also after an element is bound, and the call makes
\* no entry or exit request.
C19_NoElementNeverSettles ==
  \A i \in 1..Len(promises) :
    promises[i].el = 0 =>
      /\ promises[i].state = "pending"
      /\ promises[i].request.req = "none"

\* C19 witness: with support, a call made with no element is still pending
\* after an element was bound and a later call on it has been resolved
C19_Witness ==
  /\ hasDocument /\ pipInDocument /\ target # 0
  /\ Len(promises) = 2
  /\ promises[1].el = 0 /\ promises[1].state = "pending"
  /\ promises[2].el = target /\ promises[2].state = "resolved"

\* C20: when the bound element is replaced by a different one, the
\* track-list listeners are on the element bound first and stay there: if
\* they are attached they do not move, and if the ref has held only the
\* element it holds, that element is the first.
C20_ListenersStayOnFirstElement ==
  [][\A e \in Els :
       (~torn /\ target # 0 /\ e # target /\ SetTarget(e))
         => trackListEl' = (IF trackListEl # 0 THEN trackListEl ELSE target)]_vars

====
